---- MODULE Spec2Model ----
(***************************************************************************)
(* Model of src/files.rs: the Files struct (current location, directory    *)
(* listing, file rows, attribute schema, last error), its navigation       *)
(* methods, and the breadcrumb computation of FileExplorer.                 *)
(*                                                                         *)
(* Representation.                                                         *)
(*   - A file name is the sequence of its dot-separated segments:          *)
(*     notes.md is <<"notes","md">>, README is <<"README">>.               *)
(*   - A PathBuf (and the String holding a path's text, which in Rust is   *)
(*     the same bytes) is [abs, comps]: whether it starts at the root      *)
(*     directory, and its normal components.                               *)
(*   - Option<T> is a sequence of length at most one.                      *)
(*   - The filesystem is the variable fs; the program reads it (read_dir,  *)
(*     is_dir, read_to_string), writes it (rusqlite's Connection::open     *)
(*     creates a missing database file) and the environment changes it     *)
(*     between two operations (a directory is removed).                    *)
(*   - A panic (a failed expect) ends the life of the Files value: the     *)
(*     fields keep what they held when the panic was raised.               *)
(*   - editors is the set of detached marktext tasks (tokio::spawn) that   *)
(*     have not finished, each named by the file path it was given.        *)
(***************************************************************************)
EXTENDS Integers, Sequences, FiniteSets, TLC

VARIABLES current_path, path_contents, directories, filestructs, attributes,
          err, panic, fs, lastOp, editors

vars == <<current_path, path_contents, directories, filestructs, attributes,
          err, panic, fs, lastOp, editors>>

\* Largest dir_id (a usize, 0-based) a caller passes to enter_dir.
MaxDirId == 2

\* Largest number of detached marktext tasks running at once.
MaxEditors == 1

None == <<>>
Some(x) == <<x>>

-----------------------------------------------------------------------------
(* Paths *)

Abs(comps) == [abs |-> TRUE, comps |-> comps]
Rel(comps) == [abs |-> FALSE, comps |-> comps]

\* PathBuf::join / PathBuf::push: an absolute argument replaces the path.
Join(p, q) == IF q.abs THEN q ELSE [abs |-> p.abs, comps |-> p.comps \o q.comps]

\* Path::parent: None when the path ends in the root or is empty.
Parent(p) ==
    IF p.comps = <<>> THEN None
    ELSE Some([abs |-> p.abs, comps |-> SubSeq(p.comps, 1, Len(p.comps) - 1)])

\* Path::file_name: the last normal component.
FileName(p) == IF p.comps = <<>> THEN None ELSE Some(p.comps[Len(p.comps)])

\* Path::extension: the part of the file name after its last dot; None when
\* there is no dot, or when the only dot is the leading one.
Extension(p) ==
    IF FileName(p) = None THEN None
    ELSE LET n == FileName(p)[1]
         IN IF Len(n) = 1 THEN None
            ELSE IF Len(n) = 2 /\ n[1] = "" THEN None
            ELSE Some(n[Len(n)])

\* Path::starts_with, the test strip_prefix makes.
StartsWith(p, base) ==
    /\ p.abs = base.abs
    /\ Len(base.comps) <= Len(p.comps)
    /\ SubSeq(p.comps, 1, Len(base.comps)) = base.comps

\* file_name.to_string(): the text of a bare file name, a relative path of
\* one component.
NameString(n) == Rel(<<n>>)

-----------------------------------------------------------------------------
(* The fixed tree the model explores *)

HomeDir == Abs(<< <<"home">>, <<"u">> >>)

\* static DOC_DIR: home joined with Documents/iGEM-2025.
DOC_DIR == Join(HomeDir, Rel(<< <<"Documents">>, <<"iGEM-2025">> >>))

RootDir   == Abs(<<>>)
HomeTop   == Abs(<< <<"home">> >>)
Documents == Join(HomeDir, Rel(<< <<"Documents">> >>))
Wetlab    == Join(DOC_DIR, Rel(<< <<"wetlab">> >>))
Drylab    == Join(DOC_DIR, Rel(<< <<"drylab">> >>))
Pcr       == Join(Wetlab, Rel(<< <<"pcr">> >>))
Archive   == Join(Drylab, Rel(<< <<"archive", "md">> >>))

Dirs == {RootDir, HomeTop, HomeDir, Documents, DOC_DIR, Wetlab, Drylab, Pcr, Archive}

DbName   == <<"database", "db">>
JsonName == <<"attributes", "json">>

\* The entries of each directory other than database.db and attributes.json,
\* in the order the operating system enumerates them.
BaseEntries(d) ==
    CASE d = RootDir   -> << <<"home">> >>
      [] d = HomeTop   -> << <<"u">> >>
      [] d = HomeDir   -> << <<"Documents">> >>
      [] d = Documents -> << <<"iGEM-2025">> >>
      [] d = DOC_DIR   -> << <<"wetlab">>, <<"notes", "md">>, <<"todo", "txt">>,
                             <<"drylab">>, <<"README">>, <<"index", "md">> >>
      [] d = Wetlab    -> << <<"protocol", "md">>, <<"pcr">>, <<"gel", "MD">> >>
      [] d = Drylab    -> << <<"archive", "md">>, <<"data", "csv">> >>
      [] OTHER         -> << >>

\* The rows of table FileAttributes(file_name, attribute_value) of a
\* directory's database.db, in the order the store returns them.
DbRows(d) ==
    CASE d = DOC_DIR -> << << <<"notes", "md">>, "draft" >>,
                           << <<"index", "md">>, "final" >>,
                           << <<"notes", "md">>, "alice" >>,
                           << <<"gone", "md">>, "bob" >> >>
      [] d = Wetlab  -> << << <<"protocol", "md">>, "v2" >> >>
      [] OTHER       -> << >>

\* The members of a well-formed attributes.json, in document order.
JsonDoc(d) ==
    CASE d = DOC_DIR -> << <<"Status", [t |-> "string", v |-> "draft|final"]>>,
                           <<"Owner", [t |-> "null", v |-> ""]>> >>
      [] d = Wetlab  -> << <<"Version", [t |-> "string", v |-> "text"]>> >>
      [] OTHER       -> << >>

\* serde_json's Value::to_string: a JSON string keeps its quotes.
ValueToString(val) ==
    IF val.t = "string" THEN "\"" \o val.v \o "\"" ELSE "null"

-----------------------------------------------------------------------------
(* The filesystem *)

\* Directories whose configuration the initial state chooses.
VariedDirs == {DOC_DIR, Wetlab}
\* Directories that may be unreadable (no read permission for the user).
ProtectedDirs == {Wetlab}
\* Directories the environment removes (with what they contain).
RemovableDirs == {Drylab}
\* The other directories in which the user may create files.
WritableDirs == {Documents, Drylab}

\* A directory's store: a database.db holding table FileAttributes, or no
\* database.db in a directory that is writable or read-only.
\* A directory's attributes.json is absent, a JSON object ("object"), or text
\* that does not parse as a JSON object ("malformed").
StoreConfigs == {"valid", "absent-writable", "absent-readonly"}

FsInit ==
    { [db       |-> [d \in Dirs |-> IF d \in VariedDirs /\ c.store[d] = "valid"
                                    THEN "valid" ELSE "absent"],
       json     |-> [d \in Dirs |-> IF d \in VariedDirs THEN c.json[d] ELSE "absent"],
       writable |-> [d \in Dirs |-> IF d \in VariedDirs
                                    THEN c.store[d] # "absent-readonly"
                                    ELSE d \in WritableDirs],
       readable |-> [d \in Dirs |-> d \in ProtectedDirs => c.readable[d]],
       removed  |-> {}] :
      c \in [store    : [VariedDirs -> StoreConfigs],
             json     : [VariedDirs -> {"absent", "object", "malformed"}],
             readable : [ProtectedDirs -> BOOLEAN]] }

\* Path::is_dir: the path names a directory that still exists.
IsDir(f, p) ==
    /\ p \in Dirs
    /\ \A r \in f.removed : ~StartsWith(p, r)

RECURSIVE SeqFilterPresent(_, _, _)
SeqFilterPresent(f, d, names) ==
    IF names = <<>> THEN <<>>
    ELSE LET p == Join(d, Rel(<<Head(names)>>))
             rest == SeqFilterPresent(f, d, Tail(names))
         IN IF \E r \in f.removed : StartsWith(p, r) THEN rest
            ELSE <<Head(names)>> \o rest

\* The names read_dir yields for directory d.
Listing(f, d) ==
    SeqFilterPresent(f, d, BaseEntries(d))
      \o (IF f.json[d] # "absent" THEN <<JsonName>> ELSE <<>>)
      \o (IF f.db[d] # "absent" THEN <<DbName>> ELSE <<>>)

\* std::fs::read_dir: Err for a missing or unreadable directory, else the
\* entries (every DirEntry is read successfully).
ReadDir(f, p) ==
    IF ~IsDir(f, p) THEN [ok |-> FALSE, kind |-> "NotFound", entries |-> <<>>]
    ELSE IF ~f.readable[p] THEN [ok |-> FALSE, kind |-> "PermissionDenied", entries |-> <<>>]
    ELSE [ok |-> TRUE, kind |-> "",
          entries |-> [i \in 1..Len(Listing(f, p)) |-> Join(p, Rel(<<Listing(f, p)[i]>>))]]

\* rusqlite Connection::open(db_path), flags READ_WRITE | CREATE: an existing
\* file is opened; a missing one is created empty when the directory is
\* writable; otherwise the open fails.  conn is the Option<Connection>, named
\* by the state of the database it is connected to.
ConnectionOpen(f, d) ==
    IF d \notin Dirs THEN [conn |-> None, fs |-> f]
    ELSE IF f.db[d] # "absent" THEN [conn |-> Some(f.db[d]), fs |-> f]
    ELSE IF f.writable[d]
         THEN [conn |-> Some("empty"), fs |-> [f EXCEPT !.db[d] = "empty"]]
         ELSE [conn |-> None, fs |-> f]

\* The query without its WHERE clause: every stored value.
QueryRows_all(rows, file_name) == [k \in 1..Len(rows) |-> rows[k][2]]

\* SELECT attribute_value FROM FileAttributes WHERE file_name = ?
RECURSIVE QueryRows(_, _)
QueryRows(rows, file_name) ==
    IF rows = <<>> THEN <<>>
    ELSE (IF Head(rows)[1] = file_name THEN <<Head(rows)[2]>> ELSE <<>>)
           \o QueryRows(Tail(rows), file_name)

-----------------------------------------------------------------------------
(* struct Files and its methods.  A method is an operator from the state   *)
(* before the call to the state after it; w packs the fields of Files,     *)
(* the filesystem, the panic raised (if any) and, as a record of what the  *)
(* call did, whether it ran an enumeration ("none", "ok", "err").          *)

World ==
    [current_path |-> current_path, path_contents |-> path_contents,
     directories |-> directories, filestructs |-> filestructs,
     attributes |-> attributes, err |-> err, panic |-> panic, fs |-> fs,
     refresh |-> "none"]

\* clear_err forgetting to reset the error.
clear_err_keeps(w) == w

\* Files::clear_err
clear_err(w) == [w EXCEPT !.err = None]

\* classify_entry taking every file that has an extension as a candidate.
classify_entry_any_ext(w, conn, path) ==
    IF IsDir(w.fs, path)
    THEN [w EXCEPT !.directories = Append(@, path)]
    ELSE IF Extension(path) # None
    THEN IF conn # None
         THEN IF conn[1] = "valid"
              THEN LET file_name == FileName(path)[1]
                       file_data == <<NameString(file_name)>>
                                      \o QueryRows(DbRows(w.current_path), file_name)
                   IN [w EXCEPT !.filestructs = Append(@, file_data)]
              ELSE [w EXCEPT !.panic = Some("Failed to prepare query")]
         ELSE [w EXCEPT !.filestructs = Append(@, <<path>>)]
    ELSE w

\* classify_entry inserting at the front of directories and filestructs.
classify_entry_prepend(w, conn, path) ==
    IF IsDir(w.fs, path)
    THEN [w EXCEPT !.directories = <<path>> \o @]
    ELSE IF Extension(path) # None /\ Extension(path)[1] = "md"
    THEN IF conn # None
         THEN IF conn[1] = "valid"
              THEN LET file_name == FileName(path)[1]
                       file_data == <<NameString(file_name)>>
                                      \o QueryRows(DbRows(w.current_path), file_name)
                   IN [w EXCEPT !.filestructs = <<file_data>> \o @]
              ELSE [w EXCEPT !.panic = Some("Failed to prepare query")]
         ELSE [w EXCEPT !.filestructs = <<<<path>>>> \o @]
    ELSE w

\* The if/else-if of the loop body of refresh_display: one entry is pushed
\* to directories, or becomes a row of filestructs, or is ignored.
classify_entry(w, conn, path) ==
    IF IsDir(w.fs, path)
    THEN [w EXCEPT !.directories = Append(@, path)]
    ELSE IF Extension(path) # None /\ Extension(path)[1] = "md"
    THEN IF conn # None
         THEN IF conn[1] = "valid"
              THEN LET file_name == FileName(path)[1]
                       file_data == <<NameString(file_name)>>
                                      \o QueryRows(DbRows(w.current_path), file_name)
                   IN [w EXCEPT !.filestructs = Append(@, file_data)]
              ELSE [w EXCEPT !.panic = Some("Failed to prepare query")]
         ELSE [w EXCEPT !.filestructs = Append(@, <<path>>)]
    ELSE w

\* load_attributes swallowing the parse failure (an empty schema, no panic).
load_attributes_degrade(w) ==
    IF w.current_path \in Dirs /\ w.fs.json[w.current_path] = "object"
    THEN LET parsed == JsonDoc(w.current_path)
         IN [w EXCEPT !.attributes =
                [k \in 1..Len(parsed) |-> <<parsed[k][1], ValueToString(parsed[k][2])>>]]
    ELSE w

\* load_attributes losing the document order of the keys (reversed).
load_attributes_reversed(w) ==
    IF w.current_path \in Dirs /\ w.fs.json[w.current_path] # "absent"
    THEN IF w.fs.json[w.current_path] = "object"
         THEN LET parsed == JsonDoc(w.current_path)
                  n == Len(parsed)
              IN [w EXCEPT !.attributes =
                     [k \in 1..n |-> <<parsed[n + 1 - k][1],
                                       ValueToString(parsed[n + 1 - k][2])>>]]
         ELSE [w EXCEPT !.panic = Some("Failed to parse JSON")]
    ELSE w

\* The last statement of the loop body: attributes.json of the current
\* directory is read and parsed once per entry.
load_attributes(w) ==
    IF w.current_path \in Dirs /\ w.fs.json[w.current_path] # "absent"
    THEN IF w.fs.json[w.current_path] = "object"
         THEN LET parsed == JsonDoc(w.current_path)
              IN [w EXCEPT !.attributes =
                     [k \in 1..Len(parsed) |-> <<parsed[k][1], ValueToString(parsed[k][2])>>]]
         ELSE [w EXCEPT !.panic = Some("Failed to parse JSON")]
    ELSE w

RECURSIVE display_loop(_, _, _)
display_loop(w, conn, i) ==
    IF i > Len(w.path_contents) THEN w
    ELSE LET w1 == classify_entry(w, conn, w.path_contents[i])
         IN IF w1.panic # None THEN w1
            ELSE LET w2 == load_attributes(w1)
                 IN IF w2.panic # None THEN w2
                    ELSE display_loop(w2, conn, i + 1)

\* Files::refresh_display
refresh_display(w) ==
    LET open == ConnectionOpen(w.fs, w.current_path)
        w0 == [w EXCEPT !.directories = <<>>, !.filestructs = <<>>,
                        !.attributes = <<>>, !.fs = open.fs]
    IN display_loop(w0, open.conn, 1)

\* Files::refresh_paths
refresh_paths(w) ==
    LET rd == ReadDir(w.fs, w.current_path)
    IN IF rd.ok
       THEN refresh_display([clear_err(w) EXCEPT !.path_contents = rd.entries,
                                                 !.refresh = "ok"])
       ELSE [w EXCEPT !.err = Some("An error occurred: " \o rd.kind),
                      !.refresh = "err"]

\* back_dir running the refresh also where there is no parent.
back_dir_refreshes(w) ==
    IF Parent(w.current_path) # None
    THEN refresh_paths([w EXCEPT !.current_path = Parent(w.current_path)[1]])
    ELSE refresh_paths([w EXCEPT !.err = Some("Cannot go up from the current directory")])

\* Files::back_dir
back_dir(w) ==
    IF Parent(w.current_path) # None
    THEN refresh_paths([w EXCEPT !.current_path = Parent(w.current_path)[1]])
    ELSE [w EXCEPT !.err = Some("Cannot go up from the current directory")]

\* enter_dir clamping an index past the end to the last listed directory.
enter_dir_clamped(w, dir_id) ==
    IF w.directories # <<>>
    THEN LET k == IF dir_id + 1 > Len(w.directories) THEN Len(w.directories)
                  ELSE dir_id + 1
             path == w.directories[k]
         IN IF IsDir(w.fs, path)
            THEN refresh_paths([w EXCEPT !.current_path = path])
            ELSE w
    ELSE w

\* Files::enter_dir; dir_id is the 0-based index of Vec::get.
enter_dir(w, dir_id) ==
    IF dir_id + 1 \in 1..Len(w.directories)
    THEN LET path == w.directories[dir_id + 1]
         IN IF IsDir(w.fs, path)
            THEN refresh_paths([w EXCEPT !.current_path = path])
            ELSE w
    ELSE w

\* goto without the is_dir test.
goto_unchecked(w, path) == refresh_paths([w EXCEPT !.current_path = path])

\* Files::goto
goto(w, path) ==
    IF IsDir(w.fs, path)
    THEN refresh_paths([w EXCEPT !.current_path = path])
    ELSE w

\* Files::new
new(f) ==
    refresh_paths([current_path |-> DOC_DIR, path_contents |-> <<>>,
                   directories |-> <<>>, filestructs |-> <<>>,
                   attributes |-> <<>>, err |-> None, panic |-> None,
                   fs |-> f, refresh |-> "none"])

\* FileExplorer, the breadcrumb computation: DOC_DIR's parent is stripped
\* from current_path (unwrap panics when it is not a prefix) and one
\* (path, label) pair is produced per remaining component.
breadcrumbs(cp) ==
    LET doc_dir == Parent(DOC_DIR)[1]
    IN IF ~StartsWith(cp, doc_dir) THEN [panic |-> TRUE, crumbs |-> <<>>]
       ELSE LET relative_path == SubSeq(cp.comps, Len(doc_dir.comps) + 1, Len(cp.comps))
            IN [panic |-> FALSE,
                crumbs |-> [i \in 1..Len(relative_path) |->
                              [path |-> Join(doc_dir, Rel(SubSeq(relative_path, 1, i))),
                               name |-> relative_path[i]]]]

\* FileExplorer, the click handler of a file row: the path handed to marktext.
open_path(cp, file_data) == Join(cp, file_data[1])

\* A marktext task surfacing a failed launch in err.
marktext_reports(w, outcome) ==
    IF outcome = "failed" THEN [w EXCEPT !.err = Some("Failed to start marktext")]
    ELSE w

\* async fn marktext, seen from Files when the task ends: the editor exited
\* ("exited"), or the launch failed and expect panicked inside the detached
\* task ("failed").  The task holds the file path only, no reference to Files.
marktext(w, outcome) == w

-----------------------------------------------------------------------------
(* The state machine.  The operations are the methods of Files, called in  *)
(* any order by the owner of the value, and the changes the environment    *)
(* makes to the filesystem between two calls.  lastOp records the last     *)
(* step: the method, its argument, and whether it ran an enumeration       *)
(* ("none"), one that succeeded ("ok") or one that failed ("err").         *)

Apply(w, op) ==
    /\ current_path' = w.current_path
    /\ path_contents' = w.path_contents
    /\ directories' = w.directories
    /\ filestructs' = w.filestructs
    /\ attributes' = w.attributes
    /\ err' = w.err
    /\ panic' = w.panic
    /\ fs' = w.fs
    /\ lastOp' = [op EXCEPT !.refresh = w.refresh]

Op(name, dir_id, path) ==
    [op |-> name, dir_id |-> dir_id, path |-> path, refresh |-> "none"]

Init ==
    \E f \in FsInit :
        LET w == new(f)
        IN /\ current_path = w.current_path
           /\ path_contents = w.path_contents
           /\ directories = w.directories
           /\ filestructs = w.filestructs
           /\ attributes = w.attributes
           /\ err = w.err
           /\ panic = w.panic
           /\ fs = w.fs
           /\ lastOp = [Op("new", None, None) EXCEPT !.refresh = w.refresh]
           /\ editors = {}

BackDir ==
    /\ panic = None
    /\ Apply(back_dir(World), Op("back_dir", None, None))
    /\ UNCHANGED editors

EnterDir ==
    /\ panic = None
    /\ \E dir_id \in 0..MaxDirId :
          Apply(enter_dir(World, dir_id), Op("enter_dir", Some(dir_id), None))
    /\ UNCHANGED editors

\* A click on a breadcrumb button: goto with that breadcrumb's path.
Goto ==
    /\ panic = None
    /\ ~breadcrumbs(current_path).panic
    /\ \E i \in 1..Len(breadcrumbs(current_path).crumbs) :
          LET path == breadcrumbs(current_path).crumbs[i].path
          IN Apply(goto(World, path), Op("goto", None, Some(path)))
    /\ UNCHANGED editors

RefreshPaths ==
    /\ panic = None
    /\ Apply(refresh_paths(World), Op("refresh_paths", None, None))
    /\ UNCHANGED editors

\* The environment removes a directory and what it contains.
EnvRemove ==
    /\ panic = None
    /\ \E d \in RemovableDirs \ fs.removed :
          /\ fs' = [fs EXCEPT !.removed = @ \cup {d}]
          /\ lastOp' = Op("remove", None, Some(d))
    /\ UNCHANGED <<current_path, path_contents, directories, filestructs,
                   attributes, err, panic, editors>>

Next == BackDir \/ EnterDir \/ Goto \/ RefreshPaths \/ EnvRemove

Spec == Init /\ [][Next]_vars

\* A click on the button of a file row: the file path is built from
\* current_path and the row, and a detached task running marktext is spawned.
OpenFile ==
    /\ panic = None
    /\ Cardinality(editors) < MaxEditors
    /\ \E j \in 1..Len(filestructs) :
          LET filepath == open_path(current_path, filestructs[j])
          IN /\ editors' = editors \cup {filepath}
             /\ lastOp' = Op("open", None, Some(filepath))
    /\ UNCHANGED <<current_path, path_contents, directories, filestructs,
                   attributes, err, panic, fs>>

\* A detached marktext task ends, the editor having exited or the launch
\* having failed.
EditorEnd ==
    /\ panic = None
    /\ \E filepath \in editors, outcome \in {"exited", "failed"} :
          /\ Apply(marktext(World, outcome), Op(outcome, None, Some(filepath)))
          /\ editors' = editors \ {filepath}

NextEditor == Next \/ OpenFile \/ EditorEnd

\* The initial states in which no directory holds an attributes.json.
InitEditor == Init /\ \A d \in Dirs : fs.json[d] = "absent"

\* The navigation of Spec interleaved with the detached editor tasks.
SpecEditor == InitEditor /\ [][NextEditor]_vars

-----------------------------------------------------------------------------
(* Properties *)

NavOps == {"back_dir", "enter_dir", "goto", "refresh_paths"}

\* The entries of a listing that are candidate files: not a directory, and
\* with extension md.
RECURSIVE Candidates(_, _)
Candidates(f, entries) ==
    IF entries = <<>> THEN <<>>
    ELSE (IF ~IsDir(f, Head(entries)) /\ Extension(Head(entries)) = Some("md")
          THEN <<Head(entries)>> ELSE <<>>) \o Candidates(f, Tail(entries))

\* C1: in every state the snapshot describes the current location: every
\* listed directory and every enumerated entry is an immediate child of
\* current_path (no state has current_path at one directory and the listing
\* of another).
C1_SnapshotOfOneLocation ==
    panic = None =>
        /\ \A i \in 1..Len(directories) : Parent(directories[i]) = Some(current_path)
        /\ \A i \in 1..Len(path_contents) : Parent(path_contents[i]) = Some(current_path)

\* C2: in every state current_path is DOC_DIR or a descendant of it.
C2_NeverAboveRoot == StartsWith(current_path, DOC_DIR)

\* C3: back_dir at the root location DOC_DIR leaves current_path unchanged
\* and sets err; at any other location (that has a parent) it moves to the
\* immediate parent and runs a refresh.
C3_GoUp ==
    [][lastOp'.op = "back_dir" =>
          IF current_path = DOC_DIR
          THEN current_path' = current_path /\ err' # None
          ELSE Parent(current_path) # None =>
                  /\ Some(current_path') = Parent(current_path)
                  /\ lastOp'.refresh # "none"]_vars

\* C4: in every state the breadcrumbs of current_path are computed, are not
\* empty, end at current_path, each is an ancestor-or-self of current_path,
\* and each is the parent of the next.
C4_Breadcrumbs ==
    panic = None =>
        LET b == breadcrumbs(current_path)
        IN /\ ~b.panic
           /\ Len(b.crumbs) > 0
           /\ b.crumbs[Len(b.crumbs)].path = current_path
           /\ \A i \in 1..Len(b.crumbs) : StartsWith(current_path, b.crumbs[i].path)
           /\ \A i \in 1..(Len(b.crumbs) - 1) :
                 Parent(b.crumbs[i + 1].path) = Some(b.crumbs[i].path)

\* C5: a step whose enumeration fails sets err and leaves breadcrumbs,
\* directories, file rows and attribute schema as they were.
C5_FailedRefreshKeepsSnapshot ==
    [][lastOp'.refresh = "err" =>
          /\ err' # None
          /\ directories' = directories
          /\ filestructs' = filestructs
          /\ attributes' = attributes
          /\ breadcrumbs(current_path') = breadcrumbs(current_path)]_vars

\* C6: from every state of a filesystem from which nothing was removed,
\* enter_dir(i) for a valid i followed by back_dir (neither aborting) returns
\* to the same current_path with the same directories, file rows and
\* attribute schema.
C6_RoundTrip ==
    (panic = None /\ fs.removed = {}) =>
        \A dir_id \in 0..MaxDirId :
            (dir_id + 1 \in 1..Len(directories)) =>
                LET w1 == enter_dir(World, dir_id)
                    w2 == back_dir(w1)
                IN (w1.panic = None /\ w2.panic = None) =>
                      /\ w2.current_path = current_path
                      /\ w2.directories = directories
                      /\ w2.filestructs = filestructs
                      /\ w2.attributes = attributes

\* C7: enter_dir with a dir_id that is not a position of directories
\* changes none of current_path, err, directories, file rows and schema.
C7_EnterOutOfRangeNoOp ==
    [][(lastOp'.op = "enter_dir" /\ lastOp'.dir_id[1] + 1 \notin 1..Len(directories)) =>
          /\ current_path' = current_path
          /\ err' = err
          /\ directories' = directories
          /\ filestructs' = filestructs
          /\ attributes' = attributes
          /\ panic' = panic]_vars

\* An enter_dir with an index past the end of a non-empty directories has
\* just run.
C7_Witness ==
    /\ lastOp.op = "enter_dir"
    /\ directories # <<>>
    /\ lastOp.dir_id[1] + 1 > Len(directories)

\* C8: a successful enumeration of a directory without database.db completes
\* (no panic, no err) and yields one row per candidate file, made of the
\* file's full path only.
C8_NoStoreFallbackRows ==
    [][(lastOp'.refresh = "ok" /\ fs.db[current_path'] = "absent") =>
          LET cands == Candidates(fs', path_contents')
          IN /\ panic' = None
             /\ err' = None
             /\ filestructs' = [i \in 1..Len(cands) |-> <<cands[i]>>]]_vars

\* The entries of a listing that are directories.
RECURSIVE SubDirs(_, _)
SubDirs(f, entries) ==
    IF entries = <<>> THEN <<>>
    ELSE (IF IsDir(f, Head(entries)) THEN <<Head(entries)>> ELSE <<>>)
           \o SubDirs(f, Tail(entries))

\* C9 as claimed: a successful enumeration of a directory whose
\* attributes.json is malformed completes with an empty schema, and the
\* directories and one row per candidate file are produced.
C9_MalformedSchemaDegrades ==
    [][(lastOp'.refresh = "ok" /\ fs.json[current_path'] = "malformed") =>
          /\ panic' = None
          /\ attributes' = <<>>
          /\ directories' = SubDirs(fs', path_contents')
          /\ Len(filestructs') = Len(Candidates(fs', path_contents'))]_vars

\* C9 as amended: a successful enumeration of a directory whose
\* attributes.json is malformed aborts the refresh with a panic raised while
\* the first entry is handled: the schema is empty and at most one entry has
\* been listed.
C9_MalformedSchemaAborts ==
    [][(lastOp'.refresh = "ok" /\ fs.json[current_path'] = "malformed") =>
          /\ panic' # None
          /\ attributes' = <<>>
          /\ Len(directories') + Len(filestructs') <= 1]_vars

\* A navigation has just panicked on a malformed attributes.json.
C9_Witness ==
    /\ lastOp.op \in NavOps
    /\ lastOp.refresh = "ok"
    /\ fs.json[current_path] = "malformed"
    /\ panic = Some("Failed to parse JSON")

\* C10 as claimed: err is empty after a step whose enumeration succeeded, and
\* err is set to a new message only by a step whose enumeration failed.
C10_ErrOnlyFromEnumeration ==
    [][/\ lastOp'.refresh = "ok" => err' = None
       /\ (err' # None /\ err' # err) => lastOp'.refresh = "err"]_vars

\* C10 as amended: err is empty after a step whose enumeration succeeded, and
\* err is set to a new message only by a step whose enumeration failed or by
\* back_dir called where current_path has no parent.
C10_ErrFromEnumerationOrNoParent ==
    [][/\ lastOp'.refresh = "ok" => err' = None
       /\ (err' # None /\ err' # err) =>
             \/ lastOp'.refresh = "err"
             \/ lastOp'.op = "back_dir" /\ Parent(current_path) = None]_vars

\* back_dir has just been refused at a path without parent.
C10_Witness ==
    /\ lastOp.op = "back_dir"
    /\ lastOp.refresh = "none"
    /\ Parent(current_path) = None
    /\ err = Some("Cannot go up from the current directory")

\* The values table FileAttributes of directory d stores under file name n,
\* in the order the store returns them.
StoredValues(d, n) ==
    LET hits == SelectSeq(DbRows(d), LAMBDA r : r[1] = n)
    IN [k \in 1..Len(hits) |-> hits[k][2]]

\* C11: a refresh that completes in a directory whose database.db holds the
\* table yields, for the j-th candidate file, the row made of its bare file
\* name followed by exactly the values stored under that name, in store order.
C11_RowsFromStore ==
    [][(lastOp'.refresh = "ok" /\ fs.db[current_path'] = "valid" /\ panic' = None) =>
          LET cands == Candidates(fs', path_contents')
          IN /\ Len(filestructs') = Len(cands)
             /\ \A j \in 1..Len(cands) :
                   filestructs'[j] =
                       <<NameString(FileName(cands[j])[1])>>
                         \o StoredValues(current_path', FileName(cands[j])[1])]_vars

\* A navigation has just listed DOC_DIR with its store open: notes.md has its
\* two values in store order, index.md its one.
C11_Witness ==
    /\ lastOp.op \in NavOps
    /\ lastOp.refresh = "ok"
    /\ panic = None
    /\ current_path = DOC_DIR
    /\ fs.db[DOC_DIR] = "valid"
    /\ filestructs = << <<NameString(<<"notes", "md">>), "draft", "alice">>,
                        <<NameString(<<"index", "md">>), "final">> >>

\* C12: after a refresh that completes, the column names of the schema are
\* the keys of the directory's attributes.json in document order when it is
\* a JSON object, and the schema is empty when there is no attributes.json,
\* whatever the store.
C12_SchemaFromDocument ==
    [][(lastOp'.refresh = "ok" /\ panic' = None) =>
          LET d == current_path'
          IN /\ fs.json[d] = "object" =>
                   [k \in 1..Len(attributes') |-> attributes'[k][1]]
                     = [k \in 1..Len(JsonDoc(d)) |-> JsonDoc(d)[k][1]]
             /\ fs.json[d] = "absent" => attributes' = <<>>]_vars

\* A navigation has just listed DOC_DIR, which has the two-key attributes.json
\* and no store.
C12_Witness ==
    /\ lastOp.op \in NavOps
    /\ lastOp.refresh = "ok"
    /\ panic = None
    /\ current_path = DOC_DIR
    /\ fs.json[DOC_DIR] = "object"
    /\ fs.db[DOC_DIR] = "absent"
    /\ Len(attributes) = 2
    /\ attributes[1][1] = "Status"
    /\ attributes[2][1] = "Owner"

\* Entry e of the current directory is shown as a file row (by full path or
\* by bare name).
InRows(e) ==
    \E j \in 1..Len(filestructs) :
        filestructs[j][1] = e \/ filestructs[j][1] = NameString(FileName(e)[1])

\* Entry e of the current directory is shown as a directory.
InDirectories(e) == \E i \in 1..Len(directories) : directories[i] = e

\* C13: in every state, an entry of the current directory that is not a
\* directory and whose extension is not md is in neither file rows nor
\* directories, and no entry is in both.
C13_OnlyMarkdownAndDirs ==
    current_path \in Dirs =>
        LET names == Listing(fs, current_path)
        IN \A i \in 1..Len(names) :
              LET e == Join(current_path, Rel(<<names[i]>>))
              IN /\ (~IsDir(fs, e) /\ Extension(e) # Some("md")) =>
                        (~InRows(e) /\ ~InDirectories(e))
                 /\ ~(InRows(e) /\ InDirectories(e))

\* A navigation has just listed wetlab: gel.MD is an entry, pcr the only
\* directory shown and protocol.md the only row.
C13_Witness ==
    /\ lastOp.op \in NavOps
    /\ lastOp.refresh = "ok"
    /\ panic = None
    /\ current_path = Wetlab
    /\ directories = <<Pcr>>
    /\ Len(filestructs) = 1

\* C14: back_dir called where current_path has no parent leaves current_path
\* unchanged, sets err to the no-parent message, runs no refresh and leaves
\* the listing, directories, file rows and schema untouched.
C14_NoParentFailsSoft ==
    [][(lastOp'.op = "back_dir" /\ Parent(current_path) = None) =>
          /\ current_path' = current_path
          /\ err' = Some("Cannot go up from the current directory")
          /\ lastOp'.refresh = "none"
          /\ path_contents' = path_contents
          /\ directories' = directories
          /\ filestructs' = filestructs
          /\ attributes' = attributes
          /\ panic' = panic]_vars

\* back_dir has just been called at /, whose listing is still shown.
C14_Witness ==
    /\ lastOp.op = "back_dir"
    /\ lastOp.refresh = "none"
    /\ current_path = RootDir
    /\ directories = <<HomeTop>>
    /\ err # None

\* C15: goto(path) with a path that is a directory sets current_path to it
\* and runs a refresh; with a path that is not a directory it changes
\* nothing.
C15_Goto ==
    [][lastOp'.op = "goto" =>
          LET path == lastOp'.path[1]
          IN IF IsDir(fs, path)
             THEN current_path' = path /\ lastOp'.refresh # "none"
             ELSE /\ current_path' = current_path
                  /\ err' = err
                  /\ lastOp'.refresh = "none"
                  /\ directories' = directories
                  /\ filestructs' = filestructs
                  /\ attributes' = attributes
                  /\ panic' = panic]_vars

\* goto has just been called with the breadcrumb of a directory that was
\* removed.
C15_Witness ==
    /\ lastOp.op = "goto"
    /\ ~IsDir(fs, lastOp.path[1])
    /\ current_path = Drylab

\* C16: a step of a detached editor task (its spawn, its exit, its failure)
\* changes none of the fields of Files, and those fields change only in a
\* step of a navigation operation.
C16_EditorKeepsFiles ==
    [][/\ lastOp'.op \in {"open", "exited", "failed"} =>
             UNCHANGED <<current_path, path_contents, directories, filestructs,
                         attributes, err, panic>>
       /\ ~UNCHANGED <<current_path, path_contents, directories, filestructs,
                        attributes, err, panic>> => lastOp'.op \in NavOps]_vars

\* An editor task has just failed to launch while a navigation that ran
\* after its spawn has left an error in err.
C16_Witness ==
    /\ lastOp.op = "failed"
    /\ err # None
    /\ current_path # DOC_DIR

\* C17: after a refresh that completes, the listing is the enumeration of
\* the current directory, directories are its sub-directories in that order,
\* and the file rows are one per candidate file, in that order, each
\* identified by the candidate's bare name or full path.
C17_RowsInEnumerationOrder ==
    [][(lastOp'.refresh = "ok" /\ panic' = None) =>
          LET cands == Candidates(fs', path_contents')
          IN /\ path_contents' = ReadDir(fs, current_path').entries
             /\ directories' = SubDirs(fs', path_contents')
             /\ Len(filestructs') = Len(cands)
             /\ \A j \in 1..Len(cands) :
                   \/ filestructs'[j][1] = cands[j]
                   \/ filestructs'[j][1] = NameString(FileName(cands[j])[1])]_vars

\* A breadcrumb jump has just listed DOC_DIR: two directories and two rows,
\* in enumeration order.
C17_Witness ==
    /\ lastOp.op = "goto"
    /\ lastOp.refresh = "ok"
    /\ panic = None
    /\ current_path = DOC_DIR
    /\ directories = <<Wetlab, Drylab>>
    /\ Len(filestructs) = 2
    /\ open_path(current_path, filestructs[1]) = Join(DOC_DIR, Rel(<< <<"notes", "md">> >>))

\* C18: an enter_dir that changes current_path moves it to an immediate child
\* of the current_path before the call.
C18_EnterGoesToChild ==
    [][(lastOp'.op = "enter_dir" /\ current_path' # current_path) =>
          Parent(current_path') = Some(current_path)]_vars

\* C19: in every state the breadcrumb computation succeeds: DOC_DIR's parent
\* is a prefix of current_path.
C19_BreadcrumbsNeverPanic == ~breadcrumbs(current_path).panic

\* The entries of the listing the file rows were built from: those that were
\* not listed as directories and have extension md.
RowSources ==
    SelectSeq(path_contents,
              LAMBDA p : ~InDirectories(p) /\ Extension(p) = Some("md"))

\* C20: in every state, the path handed to the editor for the j-th file row,
\* current_path joined with the row's first element, is the path of the
\* entry the row was built from.
C20_OpenedPathIsRowFile ==
    panic = None =>
        /\ Len(filestructs) = Len(RowSources)
        /\ \A j \in 1..Len(filestructs) :
              open_path(current_path, filestructs[j]) = RowSources[j]

====
